---- MODULE Spec2Model ----
(***************************************************************************)
(* Model of scripts/download_records.py: the record-download pipeline.     *)
(*                                                                         *)
(*   main():  connect, log in, list the record ids page by page, fetch     *)
(*            every record that should not be skipped, close the channel,  *)
(*            then decode_records(records)                                 *)
(*   decode_records(records): a detail-fetch loop (HTTP GET on dataUrl)    *)
(*            followed by a decode loop (unwrap the nested envelopes)      *)
(*   should_skip / maybe_memoize: the memoization ledger                   *)
(*                                                                         *)
(* Representation.  An optional value is a sequence of length 0 or 1       *)
(* (None == <<>>, Some(v) == <<v>>).  A name (a uuid, a file name, a line  *)
(* of the ledger, a protobuf type name) is a sequence of tokens and string *)
(* concatenation is \o.  A serialized protobuf message is a tuple headed   *)
(* by its message type; base64 text is a tuple headed by "b64".            *)
(***************************************************************************)
EXTENDS Integers, Sequences, FiniteSets, TLC

VARIABLES
    ended,       \* how the earlier runs ended, oldest first
    serverList,  \* the uuids the server lists, in the order it lists them
    mode,        \* args.no_new_records: "main" or "decode_only"
    memoizeOn,   \* args.memoize_file was given
    pbdirOn,     \* args.pbdir was given
    store,       \* args.jsondir: file name -> file content
    pbfiles,     \* args.pbdir: file name -> raw bytes
    ledgerFile,  \* args.memoize_file: None, or Some(sequence of lines)
    memoized,    \* the global `memoized`: None, or Some(set of names)
    channel,     \* MSJRpcChannel: "none", "open", "closed"
    pc,          \* position in main() / decode_records()
    records,     \* the list `records`
    current,     \* the listing offset `current`
    i,           \* index (1-based) of the record the running loop is at
    res,         \* the response in flight: None or Some(response)
    err,         \* the exception that ended the run, "" when none
    log          \* history of the calls made and of the files written

vars == <<ended, serverList, mode, memoizeOn, pbdirOn, store, pbfiles, ledgerFile, memoized,
          channel, pc, records, current, i, res, err, log>>

-----------------------------------------------------------------------------
(* Bounds of the model *)

MaxListed == 2     \* Spec: the server lists at most MaxListed records
MaxPages == 2      \* SpecList: the listing takes at most MaxPages requests
MaxRuns == 2       \* SpecResume: the script is run at most MaxRuns times

(* Program constants *)

Step == 30         \* step = 30

-----------------------------------------------------------------------------
(* Optional values *)

None == <<>>
Some(v) == <<v>>

(* Names *)

\* the record uuids the server knows
Uuids == {<<"a">>, <<"b">>}

\* os.path.join(args.jsondir, "{}.json".format(r))
JsonPath(r) == r \o <<".json">>
\* os.path.join(args.pbdir, "{}.pb".format(r))
PbPath(r) == r \o <<".pb">>

\* r + "\n"
Line(r) == r \o <<"\n">>
\* l.strip()
Strip(l) ==
    IF Len(l) > 0 /\ l[Len(l)] = "\n" THEN SubSeq(l, 1, Len(l) - 1) ELSE l

\* the sequences over S without repetition that enumerate all of S
Orderings(S) ==
    LET n == Cardinality(S)
    IN  {s \in [1..n -> S] : \A a, b \in 1..n : a # b => s[a] # s[b]}

-----------------------------------------------------------------------------
(* Base64: the text form of a byte string is another value than the bytes *)

\* base64.b64encode(details).decode(), and MessageToJson of a bytes field
B64Encode(bytes) == <<"b64", bytes>>
\* base64.b64decode(data['data'])
B64Decode(text) == text[2]

(* Protobuf messages.  A serialized message is <<message type, fields...>>. *)

NS == ".lq."
\* '.lq.GameDetailRecords'
GDRName == <<NS, "GameDetailRecords">>

\* name.replace(".lq.", "")
StripNS(name) == SelectSeq(name, LAMBDA t : t # NS)

\* the names getattr(pb, name) resolves to a message class
Catalog ==
    {<<"GameDetailRecords">>, <<"RecordNewRound">>, <<"RecordDealTile">>}

WrapperBytes(name, data) == <<"Wrapper", name, data>>
GDRBytes(recs) == <<"GameDetailRecords", recs>>

\* wrapper = pb.Wrapper(); wrapper.ParseFromString(blob)
ParseWrapper(blob) == [name |-> blob[2], data |-> blob[3]]
\* records = pb.GameDetailRecords(); records.ParseFromString(..); records.records
ParseGDR(bytes) == bytes[2]

(* The byte strings the server can hand out as a record's detail blob *)

EntryA == WrapperBytes(<<NS, "RecordNewRound">>, <<"payload", 1>>)
EntryB == WrapperBytes(<<NS, "RecordDealTile">>, <<"payload", 2>>)
EntryX == WrapperBytes(<<NS, "RecordMystery">>, <<"payload", 3>>)

GoodBlob == WrapperBytes(GDRName, GDRBytes(<<EntryA, EntryB, EntryA>>))
WrongBlob == WrapperBytes(<<NS, "WrongType">>, GDRBytes(<<EntryA, EntryB>>))
UnknownBlob == WrapperBytes(GDRName, GDRBytes(<<EntryA, EntryX, EntryB>>))

Blobs == {GoodBlob, WrongBlob, UnknownBlob}

(* Decoding one record's data: lines 209-231 *)

\* the name under which an entry is looked up in pb
EntryName(rec) == StripNS(ParseWrapper(rec).name)

\* obj = cls(); obj.ParseFromString(wrapper.data);
\* result = MessageToDict(obj); result['@type'] = name
DecodeEntry(rec) ==
    [type |-> EntryName(rec), fields |-> ParseWrapper(rec).data]

\* faulty unwrap: the results come out in another order
UnwrapRotated(recs) ==
    IF \E k \in 1..Len(recs) : EntryName(recs[k]) \notin Catalog
    THEN [err |-> "AttributeError", details |-> <<>>]
    ELSE [err |-> "",
          details |-> [k \in 1..Len(recs) |-> DecodeEntry(recs[(k % Len(recs)) + 1])]]

\* the loop over records: the first entry whose class is missing raises
Unwrap(recs) ==
    IF \E k \in 1..Len(recs) : EntryName(recs[k]) \notin Catalog
    THEN [err |-> "AttributeError", details |-> <<>>]
    ELSE [err |-> "", details |-> [k \in 1..Len(recs) |-> DecodeEntry(recs[k])]]

\* faulty decode: the outer type name is not checked
EnvelopeOkUnchecked(wrapper) == TRUE

\* assert wrapper.name == '.lq.GameDetailRecords'
EnvelopeOk(wrapper) == wrapper.name = GDRName

\* blob = base64.b64decode(data['data']) ... data["details"] = results
DecodeData(text) ==
    LET wrapper == ParseWrapper(B64Decode(text))
    IN  IF ~EnvelopeOk(wrapper)
        THEN [err |-> "AssertionError", details |-> <<>>]
        ELSE Unwrap(ParseGDR(wrapper.data))

-----------------------------------------------------------------------------
(* Record documents.  A document is the dict json.load returns; a key that  *)
(* is missing is None.  A file is the document and the way it was written.  *)

Url(r) == <<"https://">> \o r

\* what lobby.fetchGameRecord can answer for record r
Responses(r) ==
    {[head |-> r, data_url |-> u, data |-> d] :
        u \in {None, Some(Url(r))}, d \in {None} \cup {Some(b) : b \in Blobs}}

\* MessageToJson(res): bytes fields are written as base64 text
MessageToJson(x) ==
    [head |-> x.head, dataUrl |-> x.data_url,
     data |-> IF x.data = None THEN None ELSE Some(B64Encode(x.data[1])),
     details |-> None]

\* f.write(MessageToJson(res))
PbJsonFile(x) == [fmt |-> "MessageToJson", doc |-> MessageToJson(x)]
\* json.dump(data, f, indent=2, ensure_ascii=False)
JsonDump(data) == [fmt |-> "json.dump", doc |-> data]
\* data = json.load(f)
JsonLoad(file) == file.doc

Has(data, key) ==
    CASE key = "data" -> data.data # None
      [] key = "dataUrl" -> data.dataUrl # None
      [] key = "details" -> data.details # None

\* faulty decode loop: decoded documents are decoded again
DetailsPresentNever(data) == FALSE

\* if "details" in data: ... continue
DetailsPresent(data) == Has(data, "details")

\* faulty detail fetch: dataUrl is removed once data is stored
WithDataDroppingUrl(data, bytes) ==
    [data EXCEPT !.data = Some(B64Encode(bytes)), !.dataUrl = None]

\* data["data"] = base64.b64encode(details).decode()
WithData(data, bytes) == [data EXCEPT !.data = Some(B64Encode(bytes))]
\* data["details"] = results
\* faulty decode: the decoded document keeps the details only
WithDetailsDroppingData(data, results) ==
    [data EXCEPT !.details = Some(results), !.data = None]

WithDetails(data, results) == [data EXCEPT !.details = Some(results)]

(* The files an earlier run of the pipeline can have left for record r *)

FetchedDocs(r) == {MessageToJson(x) : x \in Responses(r)}
DetailedDocs(r) ==
    {WithData(d, b) :
        d \in {e \in FetchedDocs(r) : ~Has(e, "data") /\ Has(e, "dataUrl")},
        b \in Blobs}
DecodedDocs(r) ==
    {WithDetails(d, DecodeData(d.data[1]).details) :
        d \in {e \in FetchedDocs(r) \cup DetailedDocs(r) :
                  Has(e, "data") /\ DecodeData(e.data[1]).err = ""}}
InitFiles(r) ==
    {[fmt |-> "MessageToJson", doc |-> d] : d \in FetchedDocs(r)}
    \cup {JsonDump(d) : d \in DetailedDocs(r) \cup DecodedDocs(r)}

\* faulty os.path.exists: no file is ever seen
ExistsNever(path) == FALSE

Exists(path) == path \in DOMAIN store

-----------------------------------------------------------------------------
(* The server's record list *)

Min(a, b) == IF a < b THEN a ELSE b

\* res.record_list of lobby.fetchGameRecordList(start, count): the entries
\* of the server's list at offsets start .. start + count - 1
Page(start, count) ==
    SubSeq(serverList, start, Min(start + count - 1, Len(serverList)))

\* faulty listing loop: only an empty page ends it
LastPageOnlyIfEmpty(record_list) == Len(record_list) = 0

\* if len(res.record_list) < step: break
LastPage(record_list) == Len(record_list) < Step

\* faulty listing loop: the next page starts on the last entry of this one
NextOffsetOverlapping(c) == c + Step - 1

\* current += step
NextOffset(c) == c + Step

\* os.listdir(args.jsondir): the file names, in any order
ListDir == Orderings(DOMAIN store)

-----------------------------------------------------------------------------
(* The memoization ledger *)

\* faulty load: the lines are taken with their newline
LoadLedgerUnstripped ==
    IF ledgerFile # None
    THEN Some({ledgerFile[1][k] : k \in 1..Len(ledgerFile[1])})
    ELSE Some({})

\* memoized = set(map(lambda l: l.strip(), f.readlines())), or set()
LoadLedger ==
    IF ledgerFile # None
    THEN Some({Strip(ledgerFile[1][k]) : k \in 1..Len(ledgerFile[1])})
    ELSE Some({})

\* faulty should_skip: the ledger is loaded without a memoize file argument
MemoizedAfterLoadAlways ==
    IF memoized = None THEN LoadLedger ELSE memoized

\* `memoized` after should_skip's lazy load
MemoizedAfterLoad ==
    IF memoizeOn /\ memoized = None THEN LoadLedger ELSE memoized

\* faulty should_skip: the ledger is not consulted
ShouldSkipIgnoringLedger(r, m) == Exists(JsonPath(r))

\* faulty should_skip: nothing is skipped
ShouldSkipNever(r, m) == FALSE

\* should_skip(r, jsonfile_path), given the loaded ledger m
ShouldSkip(r, m) ==
    (memoizeOn /\ r \in m[1]) \/ Exists(JsonPath(r))

\* faulty decode_records: the memoized-but-missing test is left out
MemoizedButMissingNever(r) == FALSE

\* not os.path.exists(json_path) and memoized is not None and r in memoized
MemoizedButMissing(r) ==
    ~Exists(JsonPath(r)) /\ memoized # None /\ r \in memoized[1]

\* memoized.add(r), after `if memoized is None: memoized = set()`
MemoizedAdd(m, r) == Some((IF m = None THEN {} ELSE m[1]) \cup {r})

\* faulty maybe_memoize: the file is opened with "w"
LedgerOverwrite(file, r) == Some(<<Line(r)>>)

\* with open(args.memoize_file, "a+") as f: f.write(r + "\n")
LedgerAppend(file, r) ==
    Some((IF file = None THEN <<>> ELSE file[1]) \o <<Line(r)>>)

-----------------------------------------------------------------------------
(* History *)

Event(op, rec, arg) == [op |-> op, rec |-> rec, arg |-> arg]
Logged(e) == log' = Append(log, e)

Crash(e) ==
    /\ pc' = "crashed"
    /\ err' = e

-----------------------------------------------------------------------------
\* the json directories an earlier run can have left
InitStores ==
    UNION {{f \in [{JsonPath(r) : r \in S} -> UNION {InitFiles(r) : r \in S}] :
               \A p \in DOMAIN f : f[p] \in InitFiles(SubSeq(p, 1, Len(p) - 1))} :
           S \in SUBSET Uuids}

\* the ledger files an earlier run can have left
InitLedgers ==
    {None} \cup UNION {{Some([k \in 1..Len(o) |-> Line(o[k])]) : o \in Orderings(S)} :
                        S \in (SUBSET Uuids) \ {{}}}

\* the lists of at most n uuids
ListsUpTo(n) == UNION {[1..k -> Uuids] : k \in 0..n}

\* the list of n uuids that repeats the uuids in turn
CycleList(n) ==
    LET o == CHOOSE s \in Orderings(Uuids) : TRUE
    IN  [k \in 1..n |-> o[((k - 1) % Len(o)) + 1]]

\* list lengths that take up to MaxPages requests of Step entries
LongLengths ==
    {n \in 0..(MaxPages * Step - 1) : n % Step \in {0, 12, Step - 1}}

InitRun ==
    /\ ended = <<>>
    /\ memoized = None
    /\ channel = "none"
    /\ pc = IF mode = "main" THEN "connect" ELSE "listdir"
    /\ records = <<>>
    /\ current = 1
    /\ i = 1
    /\ res = None
    /\ err = ""
    /\ log = <<>>

\* short listings, over every state an earlier run can have left
Init ==
    /\ serverList \in ListsUpTo(MaxListed)
    /\ mode \in {"main", "decode_only"}
    /\ memoizeOn \in BOOLEAN
    /\ pbdirOn \in BOOLEAN
    /\ store \in InitStores
    /\ pbfiles = <<>>
    /\ ledgerFile \in IF memoizeOn THEN InitLedgers ELSE {None}
    /\ InitRun

\* listings of several pages, on a first run
InitList ==
    /\ serverList \in {CycleList(n) : n \in LongLengths}
    /\ mode \in {"main", "decode_only"}
    /\ memoizeOn \in BOOLEAN
    /\ pbdirOn = TRUE
    /\ store = <<>>
    /\ pbfiles = <<>>
    /\ ledgerFile = None
    /\ InitRun

\* short listings, on a run into an empty directory; the ledger of earlier
\* runs may still be there
InitResume ==
    /\ serverList \in ListsUpTo(MaxListed)
    /\ mode \in {"main", "decode_only"}
    /\ memoizeOn \in BOOLEAN
    /\ pbdirOn \in BOOLEAN
    /\ store = <<>>
    /\ pbfiles = <<>>
    /\ ledgerFile \in IF memoizeOn THEN InitLedgers ELSE {None}
    /\ InitRun

-----------------------------------------------------------------------------
(* main(), lines 91-158 *)

\* lines 92-111: service discovery and channel.connect()
Connect ==
    /\ pc = "connect"
    /\ channel' = "open"
    /\ Logged(Event("connect", <<>>, <<>>))
    /\ pc' = "login"
    /\ UNCHANGED <<ended, serverList, mode, memoizeOn, pbdirOn,
                   store, pbfiles, ledgerFile,
                   memoized, records, current, i, res, err>>

\* lines 113-120: relogin, else manual_login; records = [], current = 1
Login ==
    /\ pc = "login"
    /\ Logged(Event("login", <<>>, <<>>))
    /\ records' = <<>>
    /\ current' = 1
    /\ pc' = "list"
    /\ UNCHANGED <<ended, serverList, mode, memoizeOn, pbdirOn,
                   store, pbfiles, ledgerFile,
                   memoized, channel, i, res, err>>

\* lines 121-131: one turn of the listing loop
ListPage ==
    /\ pc = "list"
    /\ LET record_list == Page(current, Step)
       IN  /\ Logged(Event("fetchGameRecordList", <<>>,
                           <<current, Step, Len(record_list)>>))
           /\ records' = records \o record_list
           /\ IF LastPage(record_list)
              THEN /\ pc' = "skip_check"
                   /\ current' = current
              ELSE /\ pc' = "list"
                   /\ current' = NextOffset(current)
    /\ i' = 1
    /\ UNCHANGED <<ended, serverList, mode, memoizeOn, pbdirOn,
                   store, pbfiles, ledgerFile,
                   memoized, channel, res, err>>

\* lines 134-141: should_skip(r, jsonfile_path) for the next record
SkipCheck ==
    /\ pc = "skip_check"
    /\ i <= Len(records)
    /\ memoized' = MemoizedAfterLoad
    /\ IF ShouldSkip(records[i], MemoizedAfterLoad)
       THEN /\ i' = i + 1
            /\ pc' = pc
       ELSE /\ i' = i
            /\ pc' = "fetch_record"
    /\ UNCHANGED <<ended, serverList, mode, memoizeOn, pbdirOn,
                   store, pbfiles, ledgerFile,
                   channel, records, current, res, err, log>>

\* lines 143-146: res = await lobby.fetchGameRecord(req)
FetchRecord ==
    /\ pc = "fetch_record"
    /\ \E x \in Responses(records[i]) : res' = Some(x)
    /\ Logged(Event("fetchGameRecord", records[i], <<>>))
    /\ pc' = "save_json"
    /\ UNCHANGED <<ended, serverList, mode, memoizeOn, pbdirOn,
                   store, pbfiles, ledgerFile,
                   memoized, channel, records, current, i, err>>

\* lines 147-149: the document is written
SaveJson ==
    /\ pc = "save_json"
    /\ LET path == JsonPath(records[i])
       IN  /\ store' = [p \in DOMAIN store \cup {path} |->
                          IF p = path THEN PbJsonFile(res[1]) ELSE store[p]]
           /\ Logged(Event("write", records[i], <<"MessageToJson", path>>))
    /\ pc' = IF pbdirOn THEN "save_pb" ELSE "memoize"
    /\ UNCHANGED <<ended, serverList, mode, memoizeOn, pbdirOn,
                   pbfiles, ledgerFile, memoized,
                   channel, records, current, i, res, err>>

\* lines 150-153: the raw message is written
SavePb ==
    /\ pc = "save_pb"
    /\ LET path == PbPath(records[i])
       IN  pbfiles' = [p \in DOMAIN pbfiles \cup {path} |->
                         IF p = path THEN res[1] ELSE pbfiles[p]]
    /\ pc' = "memoize"
    /\ UNCHANGED <<ended, serverList, mode, memoizeOn, pbdirOn,
                   store, ledgerFile, memoized,
                   channel, records, current, i, res, err, log>>

\* line 154 and lines 256-263: maybe_memoize(r)
Memoize ==
    /\ pc = "memoize"
    /\ IF memoizeOn
       THEN /\ memoized' = MemoizedAdd(memoized, records[i])
            /\ ledgerFile' = LedgerAppend(ledgerFile, records[i])
       ELSE UNCHANGED <<memoized, ledgerFile>>
    /\ res' = None
    /\ i' = i + 1
    /\ pc' = "skip_check"
    /\ UNCHANGED <<ended, serverList, mode, memoizeOn, pbdirOn,
                   store, pbfiles, channel, records,
                   current, err, log>>

\* faulty main: decode_records is called with the channel left open
CloseSkipped ==
    /\ pc = "skip_check"
    /\ i > Len(records)
    /\ pc' = "detail_check"
    /\ i' = 1
    /\ UNCHANGED <<ended, serverList, mode, memoizeOn, pbdirOn,
                   store, pbfiles, ledgerFile,
                   memoized, channel, records, current, res, err, log>>

\* lines 156-158: await channel.close(); decode_records(records)
Close ==
    /\ pc = "skip_check"
    /\ i > Len(records)
    /\ channel' = "closed"
    /\ Logged(Event("close", <<>>, <<>>))
    /\ pc' = "detail_check"
    /\ i' = 1
    /\ UNCHANGED <<ended, serverList, mode, memoizeOn, pbdirOn,
                   store, pbfiles, ledgerFile,
                   memoized, records, current, res, err>>

\* lines 266-267: decode_records(os.listdir(args.jsondir))
DecodeExisting ==
    /\ pc = "listdir"
    /\ records' \in ListDir
    /\ pc' = "detail_check"
    /\ i' = 1
    /\ UNCHANGED <<ended, serverList, mode, memoizeOn, pbdirOn,
                   store, pbfiles, ledgerFile,
                   memoized, channel, current, res, err, log>>

-----------------------------------------------------------------------------
(* decode_records(records), lines 161-235 *)

\* one turn of a loop of decode_records that ends by `continue`
NextRecord ==
    /\ i' = i + 1
    /\ pc' = pc
    /\ err' = err

\* lines 166-181 and 191: the detail-fetch loop up to the HTTP GET
DetailCheck ==
    /\ pc = "detail_check"
    /\ i <= Len(records)
    /\ LET r == records[i]
           json_path == JsonPath(r)
       IN  IF MemoizedButMissing(r)
           THEN NextRecord
           ELSE IF ~Exists(json_path)
           THEN Crash("FileNotFoundError") /\ i' = i
           ELSE LET data == JsonLoad(store[json_path])
                IN  IF Has(data, "data")
                    THEN NextRecord
                    ELSE IF Has(data, "dataUrl")
                    THEN /\ pc' = "detail_get"
                         /\ i' = i
                         /\ err' = err
                    ELSE NextRecord
    /\ UNCHANGED <<ended, serverList, mode, memoizeOn, pbdirOn,
                   store, pbfiles, ledgerFile,
                   memoized, channel, records, current, res, log>>

\* lines 181-185: async with session.get(url) as res: details = await res.read()
DetailGet ==
    /\ pc = "detail_get"
    /\ \E bytes \in Blobs :
         /\ res' = Some(bytes)
         /\ Logged(Event("GET", records[i],
                         <<JsonLoad(store[JsonPath(records[i])]).dataUrl[1], bytes>>))
    /\ pc' = "detail_save"
    /\ UNCHANGED <<ended, serverList, mode, memoizeOn, pbdirOn,
                   store, pbfiles, ledgerFile,
                   memoized, channel, records, current, i, err>>

\* lines 186-190: data["data"] = base64 of the bytes; the document is rewritten
DetailSave ==
    /\ pc = "detail_save"
    /\ LET json_path == JsonPath(records[i])
           data == JsonLoad(store[json_path])
       IN  /\ store' = [store EXCEPT ![json_path] = JsonDump(WithData(data, res[1]))]
           /\ Logged(Event("write", records[i], <<"data", json_path>>))
    /\ res' = None
    /\ i' = i + 1
    /\ pc' = "detail_check"
    /\ UNCHANGED <<ended, serverList, mode, memoizeOn, pbdirOn,
                   pbfiles, ledgerFile, memoized,
                   channel, records, current, err>>

\* line 193: the detail-fetch loop is over
DetailDone ==
    /\ pc = "detail_check"
    /\ i > Len(records)
    /\ pc' = "decode"
    /\ i' = 1
    /\ UNCHANGED <<ended, serverList, mode, memoizeOn, pbdirOn,
                   store, pbfiles, ledgerFile,
                   memoized, channel, records, current, res, err, log>>

\* lines 195-235: one turn of the decode loop
DecodeRecord ==
    /\ pc = "decode"
    /\ i <= Len(records)
    /\ LET r == records[i]
           json_path == JsonPath(r)
       IN  IF MemoizedButMissing(r)
           THEN NextRecord /\ UNCHANGED <<store, log>>
           ELSE IF ~Exists(json_path)
           THEN Crash("FileNotFoundError") /\ UNCHANGED <<i, store, log>>
           ELSE LET data == JsonLoad(store[json_path])
                IN  IF DetailsPresent(data)
                    THEN NextRecord /\ UNCHANGED <<store, log>>
                    ELSE IF ~Has(data, "data")
                    THEN Crash("KeyError") /\ UNCHANGED <<i, store, log>>
                    ELSE LET out == DecodeData(data.data[1])
                         IN  IF out.err # ""
                             THEN Crash(out.err) /\ UNCHANGED <<i, store, log>>
                             ELSE /\ store' = [store EXCEPT ![json_path] =
                                         JsonDump(WithDetails(data, out.details))]
                                  /\ Logged(Event("write", r, <<"details", json_path>>))
                                  /\ NextRecord
    /\ UNCHANGED <<ended, serverList, mode, memoizeOn, pbdirOn,
                   pbfiles, ledgerFile, memoized,
                   channel, records, current, res>>

\* the decode loop is over: decode_records returns
DecodeDone ==
    /\ pc = "decode"
    /\ i > Len(records)
    /\ pc' = "done"
    /\ UNCHANGED <<ended, serverList, mode, memoizeOn, pbdirOn,
                   store, pbfiles, ledgerFile,
                   memoized, channel, records, current, i, res, err, log>>

\* a network call raises: nothing catches it and the run ends
TransportError ==
    /\ pc \in {"connect", "login", "list", "fetch_record", "detail_get"}
    /\ Crash("TransportError")
    /\ UNCHANGED <<ended, serverList, mode, memoizeOn, pbdirOn,
                   store, pbfiles, ledgerFile,
                   memoized, channel, records, current, i, res, log>>

\* the process is killed between two operations (Ctrl-C, power loss): the
\* files stay as they are, what the process held in memory is gone
Interrupt ==
    /\ pc \notin {"done", "crashed"}
    /\ Crash("KeyboardInterrupt")
    /\ memoized' = None
    /\ channel' = "none"
    /\ records' = <<>>
    /\ current' = 1
    /\ i' = 1
    /\ res' = None
    /\ log' = <<>>
    /\ UNCHANGED <<ended, serverList, mode, memoizeOn, pbdirOn,
                   store, pbfiles, ledgerFile>>

\* the script is started again with the same arguments: the files stay,
\* the process state (lines 118-120, 239) is fresh
Rerun ==
    /\ pc \in {"done", "crashed"}
    /\ Len(ended) + 1 < MaxRuns
    /\ ended' = Append(ended, IF pc = "done" THEN "done"
                               ELSE IF err = "KeyboardInterrupt" THEN "interrupted"
                               ELSE "failed")
    /\ memoized' = None
    /\ channel' = "none"
    /\ pc' = IF mode = "main" THEN "connect" ELSE "listdir"
    /\ records' = <<>>
    /\ current' = 1
    /\ i' = 1
    /\ res' = None
    /\ err' = ""
    /\ log' = <<>>
    /\ UNCHANGED <<serverList, mode, memoizeOn, pbdirOn, store, pbfiles, ledgerFile>>

-----------------------------------------------------------------------------
Next ==
    \/ Connect
    \/ Login
    \/ ListPage
    \/ SkipCheck
    \/ FetchRecord
    \/ SaveJson
    \/ SavePb
    \/ Memoize
    \/ Close
    \/ DecodeExisting
    \/ DetailCheck
    \/ DetailGet
    \/ DetailSave
    \/ DetailDone
    \/ DecodeRecord
    \/ DecodeDone
    \/ TransportError

Spec == Init /\ [][Next]_vars

SpecList == InitList /\ [][Next]_vars

\* runs that can be interrupted and started again
NextResume ==
    \/ Next
    \/ Interrupt
    \/ Rerun

SpecResume == InitResume /\ [][NextResume]_vars

\* the script is started a second time
RerunOnce == ended = <<>> /\ Rerun

\* a first run and a later run; a started run goes on until it ends or is
\* killed
NextTwoRuns ==
    \/ Next
    \/ Interrupt
    \/ RerunOnce

SpecTwoRuns == InitResume /\ [][NextTwoRuns]_vars /\ WF_vars(Next)

-----------------------------------------------------------------------------
(* Vocabulary of the properties *)

\* r is a line of the ledger file (memoization enabled)
InLedger(r) ==
    /\ memoizeOn
    /\ ledgerFile # None
    /\ \E k \in 1..Len(ledgerFile[1]) : ledgerFile[1][k] = Line(r)

\* the step appends an event of kind op to the history
Appends(op) ==
    /\ Len(log') = Len(log) + 1
    /\ log'[Len(log')].op = op

\* the events of kind op, in order
EventsOf(op) == SelectSeq(log, LAMBDA e : e.op = op)

\* the step touches neither the documents nor the network
Quiet == store' = store /\ log' = log

\* the step is a `continue` of the running loop
Continues == pc' = pc /\ i' = i + 1 /\ err' = err

AtRecord == i <= Len(records)
InDecodePass == pc \in {"detail_check", "detail_get", "detail_save", "decode"}

-----------------------------------------------------------------------------
\* C1: in the primary-fetch loop the single-record fetch is called for a
\* listed record exactly when the record is not in the ledger and no document
\* exists at its path; otherwise the record is skipped untouched. Every fetch
\* call is issued from that loop for such a record, and the document a fetch
\* writes did not exist before.
C1_PrimaryFetchExactlyWhenNeeded ==
    [][ /\ (pc = "skip_check" /\ AtRecord) =>
             /\ (pc' = "fetch_record") <=>
                  (~InLedger(records[i]) /\ ~Exists(JsonPath(records[i])))
             /\ (pc' # "fetch_record") => (Continues /\ Quiet)
        /\ Appends("fetchGameRecord") =>
             /\ pc = "fetch_record"
             /\ log'[Len(log')].rec = records[i]
             /\ ~InLedger(records[i])
             /\ ~Exists(JsonPath(records[i]))
        /\ (pc = "save_json") => ~Exists(JsonPath(records[i]))
      ]_vars

\* C1 witness: the primary-fetch loop is over; it passed a record that is in
\* the ledger and has no document, and it fetched another one.
C1_Witness ==
    /\ pc = "detail_check"
    /\ \E k \in 1..Len(records) :
         InLedger(records[k]) /\ ~Exists(JsonPath(records[k]))
    /\ EventsOf("fetchGameRecord") # <<>>

\* C2: for a listed record that is in the ledger and has no document, the
\* turn of the detail-fetch loop and the turn of the decode loop are a bare
\* `continue`: no document changes, no HTTP GET, no failure, next record.
C2_MemoizedMissingSkipped ==
    [][ ( /\ mode = "main"
          /\ pc \in {"detail_check", "decode"}
          /\ AtRecord
          /\ InLedger(records[i])
          /\ ~Exists(JsonPath(records[i])) )
        => (Continues /\ Quiet)
      ]_vars

\* C2 witness: the decode loop has passed such a record (so the detail-fetch
\* loop has too) and is at the record after it.
C2_Witness ==
    /\ mode = "main"
    /\ pc = "decode"
    /\ i >= 2
    /\ AtRecord
    /\ InLedger(records[i - 1])
    /\ ~Exists(JsonPath(records[i - 1]))

\* C3: list request k asks for Step entries from offset 1 + (k-1)*Step; a
\* request that returns fewer than Step entries is the last one (the loop has
\* left the listing), and the loop leaves the listing only after such a page.
C3_PaginationStopsAtShortPage ==
    LET L == EventsOf("fetchGameRecordList")
    IN  /\ \A k \in 1..Len(L) :
             /\ L[k].arg[1] = 1 + (k - 1) * Step
             /\ L[k].arg[2] = Step
             /\ (L[k].arg[3] < Step) => (k = Len(L) /\ pc # "list")
        /\ (mode = "main" /\ pc \notin {"connect", "login", "list", "crashed"}) =>
             (Len(L) >= 1 /\ L[Len(L)].arg[3] < Step)

\* C3 witness: the run is over after exactly two list requests, a full page
\* and a short one.
C3_Witness ==
    LET L == EventsOf("fetchGameRecordList")
    IN  /\ pc = "done"
        /\ Len(L) = 2
        /\ L[1].arg[3] = Step
        /\ L[2].arg[3] < Step

\* the entries of the server's list that the list requests L returned
RECURSIVE ConcatPages(_)
ConcatPages(L) ==
    IF L = <<>> THEN <<>>
    ELSE LET e == L[Len(L)]
         IN  ConcatPages(SubSeq(L, 1, Len(L) - 1))
                 \o SubSeq(serverList, e.arg[1], e.arg[1] + e.arg[3] - 1)

\* C4: the collected records are the returned pages, concatenated in request
\* order; no offset of the server's list is covered by two requests; a page
\* of 30 followed by a page of 12 ends the listing with 42 records.
C4_RecordsAreThePages ==
    LET L == EventsOf("fetchGameRecordList")
    IN  (mode = "main") =>
          /\ records = ConcatPages(L)
          /\ \A j, k \in 1..Len(L) :
               j < k => L[j].arg[1] + L[j].arg[3] <= L[k].arg[1]
          /\ (Len(L) = 2 /\ L[1].arg[3] = 30 /\ L[2].arg[3] = 12) =>
               (pc # "list" /\ Len(records) = 42)

\* C4 witness: the listing ended after a page of 30 and a page of 12.
C4_Witness ==
    LET L == EventsOf("fetchGameRecordList")
    IN  /\ pc = "skip_check"
        /\ Len(L) = 2
        /\ L[1].arg[3] = 30
        /\ L[2].arg[3] = 12
        /\ Len(records) = 42

\* C5: during the decode pass (detail-fetch loop, then decode loop) a document
\* that has details is left as it is: its file does not change, and no HTTP
\* GET and no write is made for its record.
C5_DecodedDocumentUntouched ==
    [][ InDecodePass =>
          \A p \in DOMAIN store :
             Has(JsonLoad(store[p]), "details") =>
               /\ store'[p] = store[p]
               /\ (Appends("GET") \/ Appends("write")) =>
                    JsonPath(log'[Len(log')].rec) # p
      ]_vars

\* C5 witness: the pass is over; a listed record whose document has details,
\* data and dataUrl was never written or fetched by this run.
C5_Witness ==
    /\ pc = "done"
    /\ \E k \in 1..Len(records) :
         /\ Exists(JsonPath(records[k]))
         /\ Has(JsonLoad(store[JsonPath(records[k])]), "details")
         /\ Has(JsonLoad(store[JsonPath(records[k])]), "dataUrl")
         /\ \A n \in 1..Len(log) : log[n].rec # records[k]

\* C6: the write that follows the HTTP GET of a document with dataUrl and no
\* data stores the base64 text of the bytes the GET on that dataUrl returned,
\* keeps dataUrl and every other key as they were, and touches no other file.
C6_DetailFetchStoresBase64 ==
    [][ (pc = "detail_save") =>
          LET p == JsonPath(records[i])
              old == JsonLoad(store[p])
              new == JsonLoad(store'[p])
              get == log[Len(log)]
          IN  /\ ~Has(old, "data") /\ Has(old, "dataUrl")
              /\ get.op = "GET" /\ get.rec = records[i]
              /\ get.arg[1] = old.dataUrl[1]
              /\ new.data = Some(B64Encode(get.arg[2]))
              /\ new.dataUrl = old.dataUrl
              /\ new.head = old.head
              /\ new.details = old.details
              /\ DOMAIN store' = DOMAIN store
              /\ \A q \in DOMAIN store : q # p => store'[q] = store[q]
      ]_vars

\* C6 witness: a detail fetch has just been saved: the last two events are
\* the GET and the write, and the document has both data and dataUrl.
C6_Witness ==
    /\ pc = "detail_check"
    /\ Len(log) >= 2
    /\ log[Len(log)].op = "write"
    /\ log[Len(log) - 1].op = "GET"
    /\ LET d == JsonLoad(store[JsonPath(log[Len(log)].rec)])
       IN  /\ d.data = Some(B64Encode(log[Len(log) - 1].arg[2]))
           /\ d.dataUrl = Some(log[Len(log) - 1].arg[1])

\* the document has neither data nor dataUrl
Neither(data) == ~Has(data, "data") /\ ~Has(data, "dataUrl")

\* C7 (as claimed): a document with neither data nor dataUrl is skipped by
\* both loops of the decode pass without ending the run.
C7_NeitherIsSkipped ==
    [][ ( /\ pc \in {"detail_check", "decode"}
          /\ AtRecord
          /\ Exists(JsonPath(records[i]))
          /\ Neither(JsonLoad(store[JsonPath(records[i])])) )
        => (Continues /\ Quiet)
      ]_vars

\* C8 (as claimed): in decode-only mode no session call is made, the path
\* opened for a listed document is the path of that document, and a finished
\* run leaves details in every document that has data or dataUrl.
C8_DecodeOnlyCoversExisting ==
    (mode = "decode_only") =>
      /\ \A n \in 1..Len(log) :
           log[n].op \notin {"connect", "login", "fetchGameRecordList",
                             "fetchGameRecord", "close"}
      /\ \A k \in 1..Len(records) : JsonPath(records[k]) = records[k]
      /\ pc # "crashed"
      /\ (pc = "done") =>
           \A p \in DOMAIN store :
              (Has(JsonLoad(store[p]), "data") \/ Has(JsonLoad(store[p]), "dataUrl"))
                 => Has(JsonLoad(store[p]), "details")

\* the decode loop is at a document that has data and no details
AtUndecoded ==
    /\ pc = "decode"
    /\ AtRecord
    /\ Exists(JsonPath(records[i]))
    /\ Has(JsonLoad(store[JsonPath(records[i])]), "data")
    /\ ~Has(JsonLoad(store[JsonPath(records[i])]), "details")

\* the outer envelope of the data of the document the loop is at
OuterEnvelope == ParseWrapper(B64Decode(JsonLoad(store[JsonPath(records[i])]).data[1]))

\* C9: when the outer type name is not '.lq.GameDetailRecords', decoding the
\* record fails with the assertion's error and writes nothing: the document
\* (still without details) and every other file stay as they were.
C9_EnvelopeMismatchWritesNothing ==
    [][ (AtUndecoded /\ OuterEnvelope.name # <<".lq.", "GameDetailRecords">>) =>
          /\ pc' = "crashed"
          /\ err' = "AssertionError"
          /\ Quiet
      ]_vars

\* C9 witness: the run ended on the assertion at a document whose outer type
\* name is '.lq.WrongType'; the document has no details.
C9_Witness ==
    /\ pc = "crashed"
    /\ err = "AssertionError"
    /\ Exists(JsonPath(records[i]))
    /\ LET d == JsonLoad(store[JsonPath(records[i])])
       IN  /\ ParseWrapper(B64Decode(d.data[1])).name = <<".lq.", "WrongType">>
           /\ ~Has(d, "details")

\* C10 (as claimed): an inner type name that is missing from the catalog
\* does not end the run: the decode loop goes on to the next record.
C10_UnknownTypeIsConfined ==
    [][ ( /\ AtUndecoded
          /\ OuterEnvelope.name = GDRName
          /\ \E k \in 1..Len(ParseGDR(OuterEnvelope.data)) :
               EntryName(ParseGDR(OuterEnvelope.data)[k]) \notin Catalog )
        => (pc' = pc /\ i' = i + 1)
      ]_vars

\* the opaque sub-blobs of the document the decode loop is at
SubBlobs == ParseGDR(OuterEnvelope.data)

\* the type names the catalog resolves, as the wire carries them
CatalogTypeNames == {<<".lq.">> \o c : c \in Catalog}

\* the last thing the run did was the decode write of record r
JustDecoded(r) ==
    /\ Len(log) > 0
    /\ log[Len(log)] = Event("write", r, <<"details", JsonPath(r)>>)

\* C11: when the container of the document being decoded holds N sub-blobs
\* whose type names are all in the catalog, the details written have exactly
\* N entries, entry k is the decoding of sub-blob k (its payload, with no
\* reordering and no deduplication), and the @type of entry k is the type
\* name of sub-blob k without its '.lq.' prefix.
C11_UnwrapKeepsOrderAndCount ==
    [][ ( /\ AtUndecoded
          /\ OuterEnvelope.name = <<".lq.", "GameDetailRecords">>
          /\ \A k \in 1..Len(SubBlobs) : SubBlobs[k][2] \in CatalogTypeNames )
        => LET subs == SubBlobs
               written == store'[JsonPath(records[i])].doc.details
           IN  /\ written # <<>>
               /\ Len(written[1]) = Len(subs)
               /\ \A k \in 1..Len(subs) :
                    /\ written[1][k].type = Tail(subs[k][2])
                    /\ written[1][k].fields = subs[k][3]
      ]_vars

\* C11 witness: a record was just decoded from a container of three
\* sub-blobs whose first and third are identical; the details hold three
\* entries, the first and third equal and the second different.
C11_Witness ==
    \E r \in Uuids :
        /\ JustDecoded(r)
        /\ LET d == JsonLoad(store[JsonPath(r)])
               subs == ParseGDR(ParseWrapper(B64Decode(d.data[1])).data)
           IN  /\ Len(subs) = 3
               /\ subs[1] = subs[3]
               /\ subs[1] # subs[2]
               /\ Len(d.details[1]) = 3
               /\ d.details[1][1] = d.details[1][3]
               /\ d.details[1][1] # d.details[1][2]
               /\ d.details[1][2].type = <<"RecordDealTile">>

\* the records this run has fetched from the server
FetchedNow == {e.rec : e \in {log[k] : k \in 1..Len(log)} \cap
                               [op : {"fetchGameRecord"}, rec : Uuids, arg : {<<>>}]}

\* C12: without a memoize file argument, the primary-fetch loop skips a
\* record exactly when its document exists and fetches it otherwise, the
\* in-memory ledger stays unset, no ledger file comes to exist, and a decode
\* phase that meets a missing document does not skip it.
C12_MemoizationDisabled ==
    [][ ~memoizeOn =>
          /\ memoized' = <<>>
          /\ ledgerFile' = <<>>
          /\ (pc = "skip_check" /\ AtRecord) =>
                IF records[i] \o <<".json">> \in DOMAIN store
                THEN Continues /\ Quiet
                ELSE pc' = "fetch_record" /\ i' = i
          /\ ( /\ pc \in {"detail_check", "decode"}
               /\ AtRecord
               /\ records[i] \o <<".json">> \notin DOMAIN store ) => ~Continues
      ]_vars

\* C12 witness: a run without a memoize file argument has ended after it
\* skipped one listed record, whose document existed, and fetched another;
\* there is no in-memory ledger and no ledger file.
C12_Witness ==
    /\ ~memoizeOn
    /\ mode = "main"
    /\ pc = "done"
    /\ FetchedNow # {}
    /\ \E k \in 1..Len(records) : records[k] \notin FetchedNow
    /\ memoized = <<>>
    /\ ledgerFile = <<>>

\* the stage of record r, from the store: 0 no document, 1 Fetched,
\* 2 Detailed, 3 Decoded
Stage(r) ==
    IF r \o <<".json">> \notin DOMAIN store THEN 0
    ELSE IF store[r \o <<".json">>].doc.details # <<>> THEN 3
    ELSE IF store[r \o <<".json">>].doc.data # <<>> THEN 2
    ELSE 1

\* record r is in the ledger and has no document
Masked(r) == InLedger(r) /\ Stage(r) = 0

\* the document of record r holds data that decodes without an error
Decodes(r) ==
    /\ Stage(r) >= 2
    /\ LET outer == store[r \o <<".json">>].doc.data[1][2]
       IN  /\ outer[2] = <<".lq.", "GameDetailRecords">>
           /\ \A k \in 1..Len(outer[3][2]) : outer[3][2][k][2] \in CatalogTypeNames

\* every listed record that is not masked is in stage Decoded
AllDecoded ==
    \A k \in 1..Len(records) : Masked(records[k]) \/ Stage(records[k]) = 3

\* this run was started after an earlier run had ended or was killed
Resumed == Len(ended) > 0 /\ mode = "main"

\* C13: in a run over the listing that is started after an earlier run ended
\* or was interrupted between two operations, no record that has a document
\* is fetched again, every record is taken up at its stored stage (the detail
\* download only for a document without data, the decode write only for a
\* document with data and without details, no stage lost), the run can fail
\* only by a transport error, a new interruption or at a document that has
\* no data or does not decode, and a run that is over has every listed,
\* non-masked record in stage Decoded. A run that is not killed comes to its
\* end.
C13_ResumesFromPersistedStage ==
    /\ [][ Resumed =>
             /\ Appends("fetchGameRecord") => Stage(log'[Len(log')].rec) = 0
             /\ Appends("GET") => Stage(log'[Len(log')].rec) = 1
             /\ (Appends("write") /\ log'[Len(log')].arg[1] = "details") =>
                    Stage(log'[Len(log')].rec) = 2
             /\ \A r \in Uuids : Stage(r)' >= Stage(r)
             /\ (pc # "crashed" /\ pc' = "crashed") =>
                    \/ err' \in {"KeyboardInterrupt", "TransportError"}
                    \/ /\ pc = "decode"
                       /\ AtRecord
                       /\ Stage(records[i]) \in {1, 2}
                       /\ ~Decodes(records[i])
             /\ (pc' = "done" /\ ended' = ended) => AllDecoded'
         ]_vars
    /\ (Resumed ~> (pc \in {"done", "crashed"}))

\* C13 witness: the first run was interrupted, the second run is over. One
\* listed record had its document and its downloaded data from the first run:
\* the second run neither fetched it nor downloaded its data again, and
\* decoded it. Another listed record was fetched by the second run and is
\* decoded too.
C13_Witness ==
    /\ ended = <<"interrupted">>
    /\ mode = "main"
    /\ pc = "done"
    /\ \E r \in FetchedNow : Stage(r) = 3
    /\ \E k \in 1..Len(records) :
         LET r == records[k]
         IN  /\ r \notin FetchedNow
             /\ Stage(r) = 3
             /\ store[r \o <<".json">>].doc.dataUrl # <<>>
             /\ \A n \in 1..Len(log) : ~(log[n].op = "GET" /\ log[n].rec = r)
             /\ JustDecoded(r) \/ \E n \in 1..Len(log) :
                    log[n] = Event("write", r, <<"details", r \o <<".json">>>>)

\* the keys a document can hold
Fields == {"head", "dataUrl", "data", "details"}

\* C14: over any sequence of runs, ended or killed, no step deletes a
\* document, no step removes a key from a document, and the stage of no
\* record (none, Fetched, Detailed, Decoded) goes down.
C14_StageNeverRegresses ==
    [][ \A r \in Uuids :
          /\ Stage(r)' >= Stage(r)
          /\ (r \o <<".json">> \in DOMAIN store) =>
                /\ r \o <<".json">> \in DOMAIN store'
                /\ \A f \in Fields :
                     store[r \o <<".json">>].doc[f] # <<>> =>
                         store'[r \o <<".json">>].doc[f] # <<>>
      ]_vars

\* C14 witness: an earlier run failed; in this run a record whose document
\* was there already (it was not fetched now) got its data downloaded and
\* was decoded, its dataUrl still in place.
C14_Witness ==
    /\ Len(ended) > 0
    /\ ended[1] = "failed"
    /\ \E r \in Uuids \ FetchedNow :
         /\ JustDecoded(r)
         /\ \E n \in 1..Len(log) : log[n].op = "GET" /\ log[n].rec = r
         /\ \A f \in Fields : store[r \o <<".json">>].doc[f] # <<>>

\* C15: in every state reached from an empty directory, a document that has
\* details has data.
C15_DetailsImpliesData ==
    \A p \in DOMAIN store :
        store[p].doc.details # <<>> => store[p].doc.data # <<>>

\* C15 witness: a record whose data came with the fetch response was just
\* decoded: its document has details and data, and no dataUrl.
C15_Witness ==
    \E r \in FetchedNow :
        /\ JustDecoded(r)
        /\ store[r \o <<".json">>].doc.details # <<>>
        /\ store[r \o <<".json">>].doc.data # <<>>
        /\ store[r \o <<".json">>].doc.dataUrl = <<>>

\* the entries of the in-memory ledger, none while it is unset
SetEntries == IF memoized = <<>> THEN {} ELSE memoized[1]

\* the lines of the ledger file, in order, none while there is no file
LogLines == IF ledgerFile = <<>> THEN <<>> ELSE ledgerFile[1]

\* the entries of the ledger file
LogEntries == {SubSeq(LogLines[k], 1, Len(LogLines[k]) - 1) : k \in 1..Len(LogLines)}

\* C16: with a memoize file, the file changes only by the append of one
\* line, the id of the record at hand, after that record was fetched in this
\* run and its document exists, and the same id goes into the in-memory set;
\* an id that enters the set was either read from the file or is appended
\* that way. Whenever the primary-fetch loop turns to a record, every record
\* fetched so far is in the set and in the file. No step takes an entry out
\* of the set or a line out of the file.
C16_LedgerAppendedAfterPersist ==
    [][ memoizeOn =>
          /\ (ledgerFile' # ledgerFile) =>
                /\ AtRecord
                /\ LogLines' = LogLines \o <<records[i] \o <<"\n">>>>
                /\ SetEntries' = SetEntries \cup {records[i]}
                /\ records[i] \in FetchedNow
                /\ Stage(records[i]) >= 1
          /\ \A r \in SetEntries' \ SetEntries :
                \/ memoized = <<>> /\ r \in LogEntries /\ ledgerFile' = ledgerFile
                \/ ledgerFile' # ledgerFile /\ r = records[i]
          /\ (pc' = "skip_check") =>
                (FetchedNow' \subseteq SetEntries' /\ FetchedNow' \subseteq LogEntries')
          /\ SetEntries \subseteq SetEntries'
          /\ Len(LogLines') >= Len(LogLines)
          /\ SubSeq(LogLines', 1, Len(LogLines)) = LogLines
      ]_vars

\* C16 witness: the primary-fetch loop has come back from a fetched and
\* stored record whose id is the new last line of a ledger file that had a
\* different entry before; both entries are in the set.
C16_Witness ==
    /\ memoizeOn
    /\ pc = "skip_check"
    /\ Len(LogLines) >= 2
    /\ LogLines[1] # LogLines[Len(LogLines)]
    /\ LogEntries \subseteq SetEntries
    /\ \E r \in FetchedNow :
         /\ LogLines[Len(LogLines)] = r \o <<"\n">>
         /\ Stage(r) >= 1

\* the calls made over the session connection
SessionCalls == {"login", "fetchGameRecordList", "fetchGameRecord"}

\* event n of the history belongs to the detail-fetch or the decode loop
AfterPhase(n) ==
    \/ log[n].op = "GET"
    \/ log[n].op = "write" /\ log[n].arg[1] \in {"data", "details"}

\* C17: in a run that lists the server's records, the history holds at most
\* one connect and at most one close; every login, list and record-fetch
\* call comes after the connect and before the close; every detail download
\* and every write of the detail-fetch and decode loops comes after the
\* close; once the primary-fetch loop is over, there is exactly one connect
\* and one close and the channel is closed.
C17_SessionScopedToPrimaryFetch ==
    (mode = "main") =>
        /\ Len(EventsOf("connect")) <= 1
        /\ Len(EventsOf("close")) <= 1
        /\ \A n \in 1..Len(log) :
             /\ (log[n].op \in SessionCalls) =>
                   /\ \E c \in 1..(n - 1) : log[c].op = "connect"
                   /\ \A m \in 1..(n - 1) : log[m].op # "close"
             /\ (log[n].op = "close") =>
                   \E c \in 1..(n - 1) : log[c].op = "connect"
             /\ AfterPhase(n) =>
                   \E m \in 1..(n - 1) : log[m].op = "close"
        /\ (channel = "closed") <=> (Len(EventsOf("close")) = 1)
        /\ (pc \in {"detail_check", "detail_get", "detail_save", "decode", "done"}) =>
             /\ Len(EventsOf("connect")) = 1
             /\ Len(EventsOf("close")) = 1
             /\ channel = "closed"

\* C17 witness: a run is over whose history has, in this order, the
\* connect, a list call, a record fetch, the close, a detail download and a
\* decode write.
C17_Witness ==
    /\ mode = "main"
    /\ pc = "done"
    /\ Len(log) >= 6
    /\ log[1].op = "connect"
    /\ log[3].op = "fetchGameRecordList"
    /\ \E d \in 5..(Len(log) - 2) :
         /\ log[d].op = "close"
         /\ \E c \in 4..(d - 1) : log[c].op = "fetchGameRecord"
         /\ log[d + 1].op = "GET"
    /\ log[Len(log)].op = "write"
    /\ log[Len(log)].arg[1] = "details"

\* how many events of the history are op for record r, writes counted by
\* their kind
Count(op, kind, r) ==
    Cardinality({n \in 1..Len(log) :
                    /\ log[n].op = op
                    /\ log[n].rec = r
                    /\ (op = "write") => (log[n].arg[1] = kind)})

\* C18: in one run, whatever the listing repeats, a record is fetched from
\* the server at most once, its data is downloaded at most once and its
\* details are written at most once.
C18_AtMostOncePerRecord ==
    \A r \in Uuids :
        /\ Count("fetchGameRecord", "", r) <= 1
        /\ Count("GET", "", r) <= 1
        /\ Count("write", "details", r) <= 1
        /\ Count("write", "data", r) <= 1
        /\ Count("write", "MessageToJson", r) <= 1

\* C18 witness: a run over a listing that names the same record twice is
\* over; the record was fetched once, its data downloaded once and its
\* details written once.
C18_Witness ==
    /\ pc = "done"
    /\ Len(records) = 2
    /\ records[1] = records[2]
    /\ Count("fetchGameRecord", "", records[1]) = 1
    /\ Count("GET", "", records[1]) = 1
    /\ Count("write", "details", records[1]) = 1

\* C19: with a memoize file, once the in-memory ledger is set it holds
\* exactly the ids that are the lines of the ledger file, and the id a step
\* appends to the file was in neither before: the file gets no line twice
\* from one run.
C19_SetEqualsLog ==
    [][ memoizeOn =>
          /\ (memoized' # <<>>) => (SetEntries' = LogEntries')
          /\ (ledgerFile' # ledgerFile) =>
                /\ records[i] \notin SetEntries
                /\ records[i] \notin LogEntries
                /\ Len(LogLines') = Len(LogLines) + 1
      ]_vars

\* C19 witness: a run is over that loaded a ledger of one line and
\* appended the id of the record it fetched: the set holds both ids and the
\* file has two different lines.
C19_Witness ==
    /\ memoizeOn
    /\ pc = "done"
    /\ Cardinality(FetchedNow) = 1
    /\ Len(LogLines) = 2
    /\ Cardinality(LogEntries) = 2
    /\ SetEntries = LogEntries
    /\ LogEntries \ FetchedNow # {}

====
